---- MODULE Spec2Model ----
(***************************************************************************)
(* Model of src/models.py (CashBackAPI): the pydantic (v1) models Product, *)
(* Customer, CashBackTransaction and JWTPayload.                           *)
(*                                                                         *)
(* Numbers are fixed point: the integer u stands for the number u / Scale, *)
(* so that non-integer inputs (150.5) exist and the coercion of an `int`   *)
(* field (int(v), truncation toward zero) is not the identity.             *)
(* Strings that are matched character by character (category) are         *)
(* sequences of one-character strings.                                     *)
(***************************************************************************)
EXTENDS Integers, Sequences, FiniteSets, TLC

\* ---------------------------------------------------------------- bounds
Scale == 2          \* fixed-point units per 1
MaxAbs == 2         \* numeric inputs range over -MaxAbs .. MaxAbs (whole part)
Slack == 1          \* word lengths are taken within Slack of each regex bound
MaxSpaces == 2      \* at most this many separator spaces between the words
MaxProducts == 2    \* longest products list of a transaction
MaxNow == 3         \* the clock runs from 0 to MaxNow (minutes)
MaxLifetime == 2    \* explicit lifetimes range over 0 .. MaxLifetime (minutes)
MaxCalls == 3       \* update_exp_date is called at most MaxCalls times per payload

\* ------------------------------------------------------- program constants
MinLen1 == 3        \* RE_NAMES: [A-Za-z]{3,20}
MaxLen1 == 20
MinLen2 == 2        \* RE_NAMES: ( [A-Za-z]{2,25})?
MaxLen2 == 25
DefaultLifetime == 15   \* timedelta(minutes=15)

\* ------------------------------------------------------------------ state
VARIABLES
    input,      \* the argument of the Product(...) call that just ended
    product,    \* the Product instance the caller holds (exists = FALSE: none)
    outcome,    \* how the last operation on Product ended
    op,         \* the last operation on Product
    payload,    \* the JWTPayload instance (exists = FALSE: none)
    now,        \* datetime.utcnow(), in minutes
    call,       \* the last update_exp_date call and how it ended
    txnInput,   \* the argument of the CashBackTransaction(...) call
    txn,        \* the CashBackTransaction instance (exists = FALSE: none)
    txnOutcome  \* whether and how the CashBackTransaction(...) call ended

prodVars == <<input, product, outcome, op>>
jwtVars == <<payload, now, call>>
txnVars == <<txnInput, txn, txnOutcome>>
vars == <<input, product, outcome, op, payload, now, call, txnInput, txn, txnOutcome>>

\* ---------------------------------------------------------------- numbers
Num(u) == [kind |-> "num", u |-> u]
NotANumber == [kind |-> "bad", u |-> 0]     \* anything int()/float() rejects

Whole(n) == n * Scale

\* int(v) of a number: truncation toward zero
IntOf(u) == IF u >= 0 THEN (u \div Scale) * Scale ELSE 0 - (((0 - u) \div Scale) * Scale)

\* pydantic int_validator of the `int` fields quantity and value
IntValidator(raw) ==
    IF raw.kind = "num"
    THEN [ok |-> TRUE, val |-> IntOf(raw.u), msg |-> ""]
    ELSE [ok |-> FALSE, val |-> 0, msg |-> "value is not a valid integer"]

\* ---------------------------------------------------------------- strings
Letters ==
    {"a","b","c","d","e","f","g","h","i","j","k","l","m",
     "n","o","p","q","r","s","t","u","v","w","x","y","z",
     "A","B","C","D","E","F","G","H","I","J","K","L","M",
     "N","O","P","Q","R","S","T","U","V","W","X","Y","Z"}

Run(c, n) == [i \in 1..n |-> c]

\* the end positions (index after the last character consumed) of
\* [A-Za-z]{lo,hi} started at position i of s
LetterRun(s, i, lo, hi) ==
    {j \in (i + lo)..(i + hi) :
        /\ j <= Len(s) + 1
        /\ \A k \in i..(j - 1) : s[k] \in Letters}

\* the end positions of the optional group ( [A-Za-z]{2,25})? started at i
OptionalGroup(s, i) ==
    {i} \cup (IF i <= Len(s) /\ s[i] = " "
              THEN LetterRun(s, i + 1, MinLen2, MaxLen2)
              ELSE {})

\* the end positions of RE_NAMES matched from the start of s
RE_NAMES(s) ==
    UNION {OptionalGroup(s, j) : j \in LetterRun(s, 1, MinLen1, MaxLen1)}

\* re.match in place of re.fullmatch: a matching prefix is enough
FullMatch_Prefix(v) == RE_NAMES(v) # {}

\* re.fullmatch(RE_NAMES, v) is not None
FullMatch(v) == (Len(v) + 1) \in RE_NAMES(v)

\* db_api.info_tb.PRODUCT_CATEGORIES: the reference set of known categories
PRODUCT_CATEGORIES ==
    { <<"T","v">>,
      <<"F","o","o","d">>,
      <<"H","o","m","e"," ","o","f","f","i","c","e">>,
      Run("a", MaxLen1) \o <<" ">> \o Run("Z", MaxLen2),
      Run("a", MinLen1) }

\* ------------------------------------------------------ Product validators
Ok(v) == [exc |-> "none", msg |-> "", val |-> v]
ValueError(m) == [exc |-> "ValueError", msg |-> m, val |-> 0]
KeyError(k) == [exc |-> "KeyError", msg |-> k, val |-> 0]

category_must_be_valid(v) ==
    IF ~FullMatch(v) THEN ValueError("product name invalid")
    ELSE IF v \notin PRODUCT_CATEGORIES THEN ValueError("unknown product")
    ELSE Ok(v)

\* the quantity check left out
quantity_unchecked(v) == Ok(v)

quantity_must_be_positive(v) ==
    IF v < 0 THEN ValueError("product quantity cannot be negative")
    ELSE Ok(v)

\* values holds the fields declared above that passed their validation;
\* values['quantity'] of a quantity that failed is a KeyError
value_must_be_positive(v, values) ==
    IF v < 0 THEN ValueError("product value cannot be negative")
    ELSE IF v # 0
         THEN IF "quantity" \notin DOMAIN values THEN KeyError("quantity")
              ELSE IF values["quantity"] = 0
                   THEN ValueError("product whitout the quantity")
                   ELSE Ok(v)
         ELSE Ok(v)

\* the fields of Product in declaration order
ProductFields == <<"category", "quantity", "value">>

\* the validator of the field `name`, applied to the value v of its type
FieldValidator(name, v, values) ==
    CASE name = "category" -> category_must_be_valid(v)
      [] name = "quantity" -> quantity_must_be_positive(v)
      [] OTHER -> value_must_be_positive(v, values)

\* what a validator's result r does to the validation: a returned value
\* joins values, a ValueError joins the errors, another exception escapes
Validated(acc, name, r) ==
    CASE r.exc = "none" ->
            [acc EXCEPT !.values = (name :> r.val) @@ @,
                        !.seen = Append(@, name),
                        !.ran = Append(@, name)]
      [] r.exc = "ValueError" ->
            [acc EXCEPT !.errors = Append(@, [loc |-> name, msg |-> r.msg]),
                        !.seen = Append(@, name),
                        !.ran = Append(@, name)]
      [] OTHER ->
            [acc EXCEPT !.exc = r.exc,
                        !.seen = Append(@, name),
                        !.ran = Append(@, name)]

\* the type validation of the field `name`: category is a str, quantity
\* and value are int
TypeValidator(name, raw) ==
    IF name = "category"
    THEN [ok |-> TRUE, val |-> raw, msg |-> ""]
    ELSE IntValidator(raw)

\* a raw value typed went through type validation: an error is recorded and
\* the field's validator is not run, otherwise the validator is run
Typed(acc, name, typed) ==
    IF ~typed.ok
    THEN [acc EXCEPT !.errors = Append(@, [loc |-> name, msg |-> typed.msg]),
                     !.seen = Append(@, name)]
    ELSE Validated(acc, name, FieldValidator(name, typed.val, acc.values))

\* one field of Product: type validation, then the field's validator; the
\* next field goes on after an error, not after an exception that escaped
ValidateField(acc, name, raw) ==
    IF acc.exc # "none" THEN acc
    ELSE Typed(acc, name, TypeValidator(name, raw))

RECURSIVE ValidateFields_StopAtFirstError(_, _, _)
\* a loop that stops at the first field in error
ValidateFields_StopAtFirstError(acc, inp, i) ==
    IF i > Len(ProductFields) \/ acc.errors # <<>> THEN acc
    ELSE ValidateFields_StopAtFirstError(
            ValidateField(acc, ProductFields[i], inp[ProductFields[i]]), inp, i + 1)

RECURSIVE ValidateFields(_, _, _)
\* validate_model: the loop over the fields, in declaration order
ValidateFields(acc, inp, i) ==
    IF i > Len(ProductFields) THEN acc
    ELSE ValidateFields(ValidateField(acc, ProductFields[i], inp[ProductFields[i]]), inp, i + 1)

NoProduct == [exists |-> FALSE, category |-> <<>>, quantity |-> 0, value |-> 0]

\* the end of the validation: an escaped exception, a ValidationError with
\* the errors collected, or the instance made of the validated values
Constructed(acc) ==
    IF acc.exc # "none"
    THEN [raised |-> acc.exc, errors |-> <<>>, seen |-> acc.seen, ran |-> acc.ran,
          instance |-> NoProduct]
    ELSE IF acc.errors # <<>>
    THEN [raised |-> "ValidationError", errors |-> acc.errors, seen |-> acc.seen,
          ran |-> acc.ran, instance |-> NoProduct]
    ELSE [raised |-> "none", errors |-> <<>>, seen |-> acc.seen, ran |-> acc.ran,
          instance |-> [exists |-> TRUE,
                        category |-> acc.values["category"],
                        quantity |-> acc.values["quantity"],
                        value |-> acc.values["value"]]]

\* Product(category=..., quantity=..., value=...)
ProductInit(inp) ==
    Constructed(ValidateFields([values |-> <<>>, errors |-> <<>>, seen |-> <<>>,
                                ran |-> <<>>, exc |-> "none"], inp, 1))

\* ----------------------------------------------------------------- inputs
NumberInputs == {Num(u) : u \in (0 - Whole(MaxAbs))..Whole(MaxAbs)}
IntegerInputs == {Num(Whole(n)) : n \in (0 - MaxAbs)..MaxAbs}
QuantityInputs == IntegerInputs \cup {NotANumber}
ValueInputs == NumberInputs \cup {NotANumber}

CategorySamples ==
    { <<"T","v">>,                            \* known, but not a name
      <<"F","o","o","d">>,                    \* known name
      <<"H","o","m","e"," ","o","f","f","i","c","e">>,   \* known, two words
      <<"T","o","y","s">>,                    \* a name, unknown
      <<"x","y","z","1","2","3">> }           \* not a name

LenSet(lo, hi) ==
    {n \in ((lo - Slack)..(lo + Slack)) \cup ((hi - Slack)..(hi + Slack)) : n >= 0} \cup {0}

CategoryInputs ==
    { Run(c1, n1) \o Run(" ", k) \o Run(c2, n2) :
        c1 \in {"a", "1"}, n1 \in LenSet(MinLen1, MaxLen1),
        k \in 0..MaxSpaces,
        c2 \in {"Z", "-"}, n2 \in LenSet(MinLen2, MaxLen2) }
    \cup PRODUCT_CATEGORIES \cup CategorySamples

\* ------------------------------------------------------------- operations
NoOutcome == [raised |-> "none", errors |-> <<>>, seen |-> <<>>, ran |-> <<>>]
NoInput == [category |-> <<>>, quantity |-> Num(0), value |-> Num(0)]

Outcome(r) == [raised |-> r.raised, errors |-> r.errors, seen |-> r.seen, ran |-> r.ran]

\* the caller constructs a Product from raw input
Construct ==
    \E c \in CategorySamples, q \in QuantityInputs, v \in ValueInputs :
        LET inp == [category |-> c, quantity |-> q, value |-> v]
            r == ProductInit(inp)
        IN /\ input' = inp
           /\ product' = r.instance
           /\ outcome' = Outcome(r)
           /\ op' = "construct"
           /\ UNCHANGED <<jwtVars, txnVars>>

\* BaseModel.__setattr__ under the default Config of Product: a declared
\* field is assigned as given (no validation), another name is a ValueError
SetAttrResult(p, name, v) ==
    IF name \in {"category", "quantity", "value"}
    THEN [raised |-> "none", instance |-> [p EXCEPT ![name] = v]]
    ELSE [raised |-> "ValueError", instance |-> p]

\* the caller assigns to an attribute of the instance it holds
SetAttr ==
    /\ product.exists
    /\ \E name \in {"category", "quantity", "value", "price"} :
         \E v \in (IF name = "category" THEN CategorySamples
                   ELSE {0 - Scale, 0, 1, Scale}) :
            LET r == SetAttrResult(product, name, v)
            IN /\ product' = r.instance
               /\ outcome' = [NoOutcome EXCEPT !.raised = r.raised]
               /\ op' = "setattr"
               /\ input' = NoInput
               /\ UNCHANGED <<jwtVars, txnVars>>

\* ------------------------------------------------------------- JWTPayload
NoneExp == [set |-> FALSE, at |-> 0]
SomeExp(t) == [set |-> TRUE, at |-> t]

NoPayload == [exists |-> FALSE, sub |-> "", exp |-> NoneExp]

\* the attributes a JWTPayload instance answers to: its two fields and its
\* method (datetime is a name of the module, not of the instance)
JWTPayloadAttributes == {"sub", "exp", "update_exp_date"}

DefaultArg == [given |-> FALSE, minutes |-> 0]
Lifetime(m) == [given |-> TRUE, minutes |-> m]

\* the lifetime parameter: timedelta(minutes=15) when no argument is passed
LifetimeOf(arg) == IF arg.given THEN arg.minutes ELSE DefaultLifetime

\* self.exp = self.datetime.utcnow() + lifetime
update_exp_date(self, arg, clock) ==
    IF "datetime" \notin JWTPayloadAttributes
    THEN [raised |-> "AttributeError", self |-> self]
    ELSE [raised |-> "none",
          self |-> [self EXCEPT !.exp = SomeExp(clock + LifetimeOf(arg))]]

Subjects == {"alice", "bob"}

NoCall == [count |-> 0, lifetime |-> 0, at |-> 0, before |-> NoPayload, raised |-> "none"]

\* JWTPayload(sub=..., exp=...): exp is optional and defaults to None
NewPayload ==
    \E s \in Subjects, e \in {NoneExp} \cup {SomeExp(t) : t \in 0..MaxNow} :
        /\ payload' = [exists |-> TRUE, sub |-> s, exp |-> e]
        /\ call' = NoCall
        /\ UNCHANGED <<now, prodVars, txnVars>>

\* time passes
Tick ==
    /\ now < MaxNow
    /\ now' = now + 1
    /\ UNCHANGED <<payload, call, prodVars, txnVars>>

\* the holder of the payload calls payload.update_exp_date([lifetime])
UpdateExpDate ==
    /\ payload.exists
    /\ call.count < MaxCalls
    /\ \E arg \in {DefaultArg} \cup {Lifetime(m) : m \in 0..MaxLifetime} :
         LET r == update_exp_date(payload, arg, now)
         IN /\ payload' = r.self
            /\ call' = [count |-> call.count + 1, lifetime |-> LifetimeOf(arg),
                        at |-> now, before |-> payload, raised |-> r.raised]
            /\ UNCHANGED <<now, prodVars, txnVars>>

\* ---------------------------------------------------- CashBackTransaction
Timestamp(t) == [kind |-> "datetime", u |-> t]
BadTimestamp == [kind |-> "bad", u |-> 0]

\* pydantic's datetime validation of sold_at
DatetimeValidator(raw) ==
    IF raw.kind = "datetime"
    THEN [ok |-> TRUE, val |-> raw.u]
    ELSE [ok |-> FALSE, val |-> 0]

\* pydantic's float validation of total: a number is kept as it is
FloatValidator(raw) ==
    IF raw.kind = "num"
    THEN [ok |-> TRUE, val |-> raw.u]
    ELSE [ok |-> FALSE, val |-> 0]

\* Customer with its customer_cpf through type validation
CustomerOf(inp, cpf) ==
    [errors |-> IF cpf.ok THEN <<>> ELSE << <<"customer", "customer_cpf">> >>,
     instance |-> [customer_name |-> inp.customer_name, customer_cpf |-> cpf.val]]

\* Customer(customer_name=..., customer_cpf=...): the locations of its errors
CustomerInit(inp) == CustomerOf(inp, IntValidator(inp.customer_cpf))

\* what the construction r of the i-th item does to the list: a valid item
\* joins it, the errors of an invalid one are collected under its index,
\* another exception escapes
Item(acc, r, i) ==
    CASE r.raised = "none" ->
            [acc EXCEPT !.items = Append(@, r.instance)]
      [] r.raised = "ValidationError" ->
            [acc EXCEPT !.errors =
                @ \o [k \in 1..Len(r.errors) |-> <<"products", i, r.errors[k].loc>>]]
      [] OTHER -> [acc EXCEPT !.exc = r.raised]

RECURSIVE ValidateProducts(_, _, _)
\* List[Product]: the items are validated in order
ValidateProducts(acc, items, i) ==
    IF i > Len(items) \/ acc.exc # "none" THEN acc
    ELSE ValidateProducts(Item(acc, ProductInit(items[i]), i), items, i + 1)

NoTxn == [exists |-> FALSE, sold_at |-> 0, customer_cpf |-> 0, total |-> 0, products |-> <<>>]

\* the errors of the four fields, in declaration order
TransactionErrors(d, c, t, ps) ==
    (IF d.ok THEN <<>> ELSE << <<"sold_at">> >>)
    \o c.errors
    \o (IF t.ok THEN <<>> ELSE << <<"total">> >>)
    \o ps.errors

\* the end of the validation of the four fields
TransactionOf(d, c, t, ps) ==
    IF ps.exc # "none"
    THEN [raised |-> ps.exc, errors |-> <<>>, instance |-> NoTxn]
    ELSE IF TransactionErrors(d, c, t, ps) # <<>>
    THEN [raised |-> "ValidationError", errors |-> TransactionErrors(d, c, t, ps),
          instance |-> NoTxn]
    ELSE [raised |-> "none", errors |-> <<>>,
          instance |-> [exists |-> TRUE, sold_at |-> d.val,
                        customer_cpf |-> c.instance.customer_cpf,
                        total |-> t.val, products |-> ps.items]]

\* CashBackTransaction(sold_at=..., customer=..., total=..., products=...)
TransactionInit(inp) ==
    TransactionOf(DatetimeValidator(inp.sold_at),
                  CustomerInit(inp.customer),
                  FloatValidator(inp.total),
                  ValidateProducts([items |-> <<>>, errors |-> <<>>, exc |-> "none"],
                                   inp.products, 1))

Food == <<"F","o","o","d">>

ProductSamples ==
    { [category |-> Food, quantity |-> Num(Whole(1)), value |-> Num(Whole(1))],
      [category |-> <<"T","v">>, quantity |-> Num(Whole(2)), value |-> Num(0)],
      [category |-> Food, quantity |-> Num(0), value |-> Num(Whole(1))],
      [category |-> Food, quantity |-> Num(Whole(0 - 1)), value |-> Num(Whole(1))] }

\* the sequences over S of length at most n
SeqsUpTo(S, n) == UNION {[1..k -> S] : k \in 0..n}

CustomerInputs ==
    { [customer_name |-> "Ana", customer_cpf |-> Num(Whole(1))],
      [customer_name |-> "Ana", customer_cpf |-> NotANumber] }

NoTxnInput ==
    [sold_at |-> Timestamp(0), customer |-> [customer_name |-> "", customer_cpf |-> Num(0)],
     total |-> Num(0), products |-> <<>>]

\* the products lists given to the constructor
ProductLists == SeqsUpTo(ProductSamples, MaxProducts)

\* the raw inputs given to the constructor
TxnInputs ==
    [sold_at : {Timestamp(1), BadTimestamp},
     customer : CustomerInputs,
     total : {Num(0), Num(Whole(MaxAbs) + 1)},
     products : ProductLists]

NotCalled == [done |-> FALSE, raised |-> "none", errors |-> <<>>]

\* the caller constructs a CashBackTransaction from the raw input it holds
TxnConstruct ==
    /\ ~txnOutcome.done
    /\ \E r \in {TransactionInit(txnInput)} :
          /\ txn' = r.instance
          /\ txnOutcome' = [done |-> TRUE, raised |-> r.raised, errors |-> r.errors]
    /\ UNCHANGED <<txnInput, prodVars, jwtVars>>

\* ---------------------------------------------------------- specifications
Init ==
    /\ input = NoInput
    /\ product = NoProduct
    /\ outcome = NoOutcome
    /\ op = "init"
    /\ payload = NoPayload
    /\ now = 0
    /\ call = NoCall
    /\ txnInput = NoTxnInput
    /\ txn = NoTxn
    /\ txnOutcome = NotCalled

Next == Construct \/ SetAttr

Spec == Init /\ [][Next]_vars

NextJWT == NewPayload \/ Tick \/ UpdateExpDate

SpecJWT == Init /\ [][NextJWT]_vars

\* the raw input of a transaction is drawn first, then the construction is
\* applied to it
InitTxn ==
    /\ txnInput \in TxnInputs
    /\ txn = NoTxn
    /\ txnOutcome = NotCalled
    /\ input = NoInput
    /\ product = NoProduct
    /\ outcome = NoOutcome
    /\ op = "init"
    /\ payload = NoPayload
    /\ now = 0
    /\ call = NoCall

NextTxn == TxnConstruct

SpecTxn == InitTxn /\ [][NextTxn]_vars

\* the category check over many strings: the input is drawn first, then
\* the construction is applied to it
InitCategory ==
    /\ \E c \in CategoryInputs, q \in {Num(0), Num(Whole(1))}, v \in {Num(0), Num(Whole(1))} :
            input = [category |-> c, quantity |-> q, value |-> v]
    /\ product = NoProduct
    /\ outcome = NoOutcome
    /\ op = "init"
    /\ payload = NoPayload
    /\ now = 0
    /\ call = NoCall
    /\ txnInput = NoTxnInput
    /\ txn = NoTxn
    /\ txnOutcome = NotCalled

\* Product(**input) of the input drawn
ConstructDrawn ==
    /\ op = "init"
    /\ LET r == ProductInit(input)
       IN /\ product' = r.instance
          /\ outcome' = Outcome(r)
          /\ op' = "construct"
    /\ UNCHANGED <<input, jwtVars, txnVars>>

NextCategory == ConstructDrawn

SpecCategory == InitCategory /\ [][NextCategory]_vars

\* ------------------------------------------------- vocabulary of the claims
AllLetters(s, a, b) == \A k \in a..b : s[k] \in Letters

\* s is 3-20 letters, optionally followed by one space and 2-25 letters
WellFormedName(s) ==
    \/ Len(s) \in MinLen1..MaxLen1 /\ AllLetters(s, 1, Len(s))
    \/ \E n \in MinLen1..MaxLen1 :
          /\ Len(s) - (n + 1) \in MinLen2..MaxLen2
          /\ AllLetters(s, 1, n)
          /\ s[n + 1] = " "
          /\ AllLetters(s, n + 2, Len(s))

CategoryBad(inp) ==
    ~WellFormedName(inp.category) \/ inp.category \notin PRODUCT_CATEGORIES

QuantityBad(inp) ==
    inp.quantity.kind # "num" \/ IntOf(inp.quantity.u) < 0

ValueBad(inp) ==
    \/ inp.value.kind # "num"
    \/ IntOf(inp.value.u) < 0
    \/ IntOf(inp.value.u) # 0 /\ ~QuantityBad(inp) /\ IntOf(inp.quantity.u) = 0

\* the value rule looks up a quantity that did not pass its own check
ReadsFailedQuantity(inp) ==
    inp.value.kind = "num" /\ IntOf(inp.value.u) > 0 /\ QuantityBad(inp)

FieldBad(inp, name) ==
    CASE name = "category" -> CategoryBad(inp)
      [] name = "quantity" -> QuantityBad(inp)
      [] OTHER -> ValueBad(inp)

Violated(inp) == SelectSeq(ProductFields, LAMBDA name : FieldBad(inp, name))

Locs(errors) == [i \in 1..Len(errors) |-> errors[i].loc]

ErrorsAt(errors, name) == SelectSeq(errors, LAMBDA e : e.loc = name)

ProductInvariants(p) ==
    /\ WellFormedName(p.category) /\ p.category \in PRODUCT_CATEGORIES
    /\ p.quantity >= 0
    /\ p.value >= 0
    /\ p.value # 0 => p.quantity > 0

\* ----------------------------------------------------------------- claims

\* C1: with a valid category and a quantity >= 0, constructing a Product
\* fails if and only if value < 0 or (value # 0 and quantity = 0).
C1_FailsIffValueRule ==
    (/\ op = "construct"
     /\ ~CategoryBad(input)
     /\ input.quantity.kind = "num" /\ input.quantity.u >= 0
     /\ input.value.kind = "num")
    => ((outcome.raised # "none")
          <=> (input.value.u < 0 \/ (input.value.u # 0 /\ input.quantity.u = 0)))

C5_SingleErrorKind ==
    op = "construct" =>
        /\ outcome.raised \in {"none", "ValidationError"}
        /\ (outcome.raised = "none") <=> product.exists
        /\ outcome.raised = "ValidationError" => outcome.errors # <<>>

\* C6 (as stated): construction fails fast; the ValidationError reports only
\* the first violated field and no later field is validated.
C6_FailFast ==
    (op = "construct" /\ outcome.raised = "ValidationError") =>
        /\ Len(outcome.errors) = 1
        /\ outcome.errors[1].loc = Violated(input)[1]
        /\ outcome.seen[Len(outcome.seen)] = outcome.errors[1].loc

\* C6 (amended): the fields are validated in the order category, quantity,
\* value, every one of them whatever the earlier ones did (the validator of
\* each field whose raw value has the field's type is run); a ValidationError
\* reports every violated field in that order; the value rule reading a
\* quantity that failed its own check ends the construction with KeyError.
C6_OrderedCollectAll ==
    op = "construct" =>
        /\ outcome.seen = ProductFields
        /\ outcome.ran = SelectSeq(ProductFields,
                LAMBDA name : name = "category" \/ input[name].kind = "num")
        /\ (outcome.raised = "KeyError") <=> ReadsFailedQuantity(input)
        /\ outcome.raised # "KeyError" => Locs(outcome.errors) = Violated(input)
        /\ (outcome.raised = "none") <=> (~ReadsFailedQuantity(input) /\ Violated(input) = <<>>)

C6_Witness ==
    /\ op = "construct"
    /\ outcome.raised = "ValidationError"
    /\ Locs(outcome.errors) = ProductFields

\* C7 (as stated): every Product instance that exists satisfies the three
\* invariants at all times.
C7_AlwaysValid ==
    product.exists => ProductInvariants(product)

\* C7 (amended): a Product instance satisfies the three invariants when its
\* construction returns it (assignments to its fields are not validated).
C7_ValidOnConstruction ==
    (op = "construct" /\ product.exists) => ProductInvariants(product)

C7_Witness ==
    /\ op = "construct"
    /\ product.exists
    /\ product.value > 0
    /\ product.quantity > 0

\* C9: the value rule rejects a negative value with "product value cannot
\* be negative" and a nonzero value with quantity 0 with exactly "product
\* without the quantity".
C9_ValueRuleReasons ==
    (op = "construct" /\ outcome.raised = "ValidationError" /\ input.value.kind = "num") =>
        \A i \in 1..Len(outcome.errors) :
            outcome.errors[i].loc = "value" =>
                outcome.errors[i].msg =
                    (IF IntOf(input.value.u) < 0
                     THEN "product value cannot be negative"
                     ELSE "product without the quantity")

\* C10: the fields read back from a constructed Product equal the input
\* fields exactly, a non-integer value included.
C10_RoundTrip ==
    (op = "construct" /\ product.exists /\ input.value.u >= 0) =>
        /\ product.category = input.category
        /\ product.quantity = input.quantity.u
        /\ product.value = input.value.u

\* C3: update_exp_date on a payload whose exp is unset completes and leaves
\* exp = the time of the call + the lifetime (15 minutes by default), with
\* sub unchanged.
C3_SetsExp ==
    (call.count > 0 /\ ~call.before.exp.set) =>
        /\ call.raised = "none"
        /\ payload.exp = SomeExp(call.at + call.lifetime)
        /\ payload.sub = call.before.sub

\* C4: after two or more update_exp_date calls exp is the time of the most
\* recent call plus that call's lifetime, and exp once set is never unset.
C4_LastCallWins ==
    call.count >= 2 =>
        /\ payload.exp = SomeExp(call.at + call.lifetime)
        /\ call.before.exp.set => payload.exp.set

\* C8: a transaction is rejected with ValidationError whenever its customer
\* or any of its products fails its own validation, and is accepted, with
\* the products in input order, when sold_at parses and all of them are valid.
C8_NestedValidation ==
    txnOutcome.done =>
        LET ps == txnInput.products
            badProduct == \E i \in 1..Len(ps) : ProductInit(ps[i]).raised # "none"
            badCustomer == CustomerInit(txnInput.customer).errors # <<>>
        IN /\ (badProduct \/ badCustomer) => txnOutcome.raised = "ValidationError"
           /\ (~badProduct /\ ~badCustomer /\ txnInput.sold_at.kind = "datetime") =>
                /\ txn.exists
                /\ txn.products = [i \in 1..Len(ps) |-> ProductInit(ps[i]).instance]

====
